---- MODULE Spec2Model ----
(***************************************************************************)
(* A model of app.py, a Streamlit chat page over a streaming chat client.  *)
(*                                                                         *)
(* Text is modelled as a sequence of one-character strings, so that        *)
(* Python's string concatenation is \o and "" is << >>.                    *)
(*                                                                         *)
(* Two specifications share the variables:                                 *)
(*   Spec        one browser session: script runs, turns, stream events;   *)
(*   SpecStream  process_thinking_stream run on every bounded stream.      *)
(***************************************************************************)
EXTENDS Integers, Sequences, FiniteSets, TLC

VARIABLES
    credential,        \* os.environ.get('OLLAMA_API_KEY'): missing, empty or valid
    messages,          \* st.session_state["messages"]; << >> while the key is absent
    pc,                \* where the script is: idle, streaming (inside the for loop), returned
    thinking_content,  \* local accumulator of process_thinking_stream
    response_content,  \* local accumulator of process_thinking_stream
    status,            \* label of the st.status container of the current turn
    nparts,            \* fragments the current stream has yielded so far
    sent,              \* the messages argument of the last client.chat call
    rendered,          \* chat messages drawn by display_chat_history in the last run
    live,              \* chat messages drawn by handle_user_input in the last run
    pre,               \* the store as main() found it in the last run
    inputs,            \* every value st.chat_input has returned, in order
    calls,             \* number of client.chat invocations so far
    completed,         \* turns that reached the assistant append
    failed,            \* turns ended by an exception
    error,             \* exception that ended the last script run, or "none"
    stream,            \* SpecStream: the argument of process_thinking_stream
    pos                \* SpecStream: fragments the for loop has consumed

vars == << credential, messages, pc, thinking_content, response_content, status,
           nparts, sent, rendered, live, pre, inputs, calls, completed, failed,
           error, stream, pos >>

----------------------------------------------------------------------------
(* Bounds *)

MaxTurns == 2      \* submissions per session
MaxParts == 2      \* fragments per stream in a session
MaxLen == 3        \* fragments per stream in SpecStream

----------------------------------------------------------------------------
(* Values *)

None == << "None" >>                 \* Python's None, distinct from every text
EmptyDict == [k \in {} |-> k]        \* Python's {}

Deltas == { << >>, << "a" >>, << " " >> }
UserInputs == { << "q" >>, << "r", " " >> }
Whitespace == { " " }

\* The system prompt of the initial store, abbreviated.
SystemPrompt == << "S" >>

\* A fragment is a dict; its "message" entry, when present, is a dict that may
\* have a "thinking" key, a "content" key, both or neither.
Message ==
    { [role |-> "assistant"] }
    \cup { [role |-> "assistant", thinking |-> t] : t \in Deltas }
    \cup { [role |-> "assistant", content |-> c] : c \in Deltas }
    \cup { [role |-> "assistant", thinking |-> t, content |-> c] : t \in Deltas, c \in Deltas }

Fragment == { [done |-> FALSE] } \cup { [message |-> m, done |-> FALSE] : m \in Message }

RECURSIVE SeqsUpTo(_, _)
SeqsUpTo(S, n) ==
    IF n = 0 THEN { << >> }
    ELSE LET shorter == SeqsUpTo(S, n - 1)
         IN  shorter \cup { Append(s, x) : s \in { t \in shorter : Len(t) = n - 1 }, x \in S }

Last(s) == s[Len(s)]

IsPrefix(s, t) == Len(s) <= Len(t) /\ SubSeq(t, 1, Len(s)) = s

\* dict.get(key, default)
get(d, key, default) == IF key \in DOMAIN d THEN d[key] ELSE default

\* str.strip()
RECURSIVE lstrip(_)
lstrip(s) == IF s # << >> /\ Head(s) \in Whitespace THEN lstrip(Tail(s)) ELSE s

RECURSIVE rstrip(_)
rstrip(s) ==
    IF s # << >> /\ Last(s) \in Whitespace THEN rstrip(SubSeq(s, 1, Len(s) - 1)) ELSE s

strip(s) == rstrip(lstrip(s))

----------------------------------------------------------------------------
(* The stream classifier *)

NoText == [thinking_content |-> << >>, response_content |-> << >>]

\* loop_body with "if" in place of "elif": a fragment with both keys feeds
\* both accumulators.
loop_body_if_if(acc, part) ==
    LET message == get(part, "message", EmptyDict)
        acc1 == IF "thinking" \in DOMAIN message
                THEN [acc EXCEPT !.thinking_content = @ \o message["thinking"]]
                ELSE acc
    IN  IF "content" \in DOMAIN message
        THEN [acc1 EXCEPT !.response_content = @ \o message["content"]]
        ELSE acc1

\* loop_body with the delta put in front of the accumulated text.
loop_body_prepends(acc, part) ==
    LET message == get(part, "message", EmptyDict)
    IN  IF "thinking" \in DOMAIN message
        THEN [acc EXCEPT !.thinking_content = message["thinking"] \o @]
        ELSE IF "content" \in DOMAIN message
             THEN [acc EXCEPT !.response_content = message["content"] \o @]
             ELSE acc

\* loop_body with a final else branch that starts the answer over.
loop_body_else_clears(acc, part) ==
    LET message == get(part, "message", EmptyDict)
    IN  IF "thinking" \in DOMAIN message
        THEN [acc EXCEPT !.thinking_content = @ \o message["thinking"]]
        ELSE IF "content" \in DOMAIN message
             THEN [acc EXCEPT !.response_content = @ \o message["content"]]
             ELSE [acc EXCEPT !.response_content = << >>]

\* One iteration of the for loop: the fragment's "message" entry (an empty
\* dict when absent) feeds the thinking accumulator if it has a "thinking"
\* key, else the response accumulator if it has a "content" key.
loop_body(acc, part) ==
    LET message == get(part, "message", EmptyDict)
    IN  IF "thinking" \in DOMAIN message
        THEN [acc EXCEPT !.thinking_content = @ \o message["thinking"]]
        ELSE IF "content" \in DOMAIN message
             THEN [acc EXCEPT !.response_content = @ \o message["content"]]
             ELSE acc

RECURSIVE for_loop(_, _)
for_loop(acc, parts) ==
    IF parts = << >> THEN acc ELSE for_loop(loop_body(acc, Head(parts)), Tail(parts))

\* The pair process_thinking_stream returns for a stream that ends normally.
process_thinking_stream(parts) ==
    LET acc == for_loop(NoText, parts)
    IN  << acc.thinking_content, acc.response_content >>

----------------------------------------------------------------------------
(* Rendering *)

Markdown(text) == [kind |-> "markdown", text |-> text]
Expander(text) == [kind |-> "expander", text |-> text]

\* What display_assistant_message draws: the thinking expander when the
\* thinking text is not blank, then the content when it is not empty.
display_assistant_message(content, thinking) ==
    (IF thinking # None /\ thinking # << >> /\ strip(thinking) # << >>
     THEN << Expander(thinking) >> ELSE << >>)
    \o (IF content # None /\ content # << >> THEN << Markdown(content) >> ELSE << >>)

\* One chat message container: its role and what is drawn in it.
display_message(message) ==
    LET role == IF message.role = "user" THEN "user" ELSE "assistant"
    IN  [role |-> role,
         body |-> IF role = "assistant"
                  THEN display_assistant_message(get(message, "content", None),
                                                 get(message, "thinking", None))
                  ELSE << Markdown(message.content) >>]

\* display_chat_history without the test of the role.
RECURSIVE display_chat_history_all(_)
display_chat_history_all(msgs) ==
    IF msgs = << >> THEN << >>
    ELSE << display_message(Head(msgs)) >> \o display_chat_history_all(Tail(msgs))

RECURSIVE display_chat_history(_)
display_chat_history(msgs) ==
    IF msgs = << >> THEN << >>
    ELSE (IF Head(msgs).role # "system" THEN << display_message(Head(msgs)) >> ELSE << >>)
         \o display_chat_history(Tail(msgs))

----------------------------------------------------------------------------
(* The conversation store *)

system_message == [role |-> "system", content |-> SystemPrompt]

\* user_message with a thinking entry.
user_message_with_thinking(user_input) ==
    [role |-> "user", content |-> user_input, thinking |-> << >>]

user_message(user_input) == [role |-> "user", content |-> user_input]

\* assistant_message stored under the user role.
assistant_message_as_user(content, thinking) ==
    [role |-> "user", content |-> content, thinking |-> thinking]

assistant_message(content, thinking) ==
    [role |-> "assistant", content |-> content, thinking |-> thinking]

\* session_init without the test for an existing store.
session_init_always(msgs) == << system_message >>

\* The __main__ block: the store is created only when the session has none.
session_init(msgs) == IF msgs = << >> THEN << system_message >> ELSE msgs

----------------------------------------------------------------------------
(* One browser session: Spec *)

Thinking == "Thinking..."
ThinkingComplete == "Thinking complete!"

Init ==
    /\ credential \in { "missing", "empty", "valid" }
    /\ messages = << >>
    /\ pc = "idle"
    /\ thinking_content = << >>
    /\ response_content = << >>
    /\ status = "none"
    /\ nparts = 0
    /\ sent = << >>
    /\ rendered = << >>
    /\ live = << >>
    /\ pre = << >>
    /\ inputs = << >>
    /\ calls = 0
    /\ completed = 0
    /\ failed = 0
    /\ error = "none"
    /\ stream = << >>
    /\ pos = 0

\* Module level, line 13: 'Bearer ' + None raises TypeError when the variable
\* is not set, on every run of the script, before the session state is touched.
StartupCrash ==
    /\ pc = "idle"
    /\ credential = "missing"
    /\ error' = "TypeError"
    /\ UNCHANGED << credential, messages, pc, thinking_content, response_content,
                    status, nparts, sent, rendered, live, pre, inputs, calls,
                    completed, failed, stream, pos >>

\* A script run in which st.chat_input returns None: the store is created if
\* absent, the history is drawn, handle_user_input does nothing.
Run ==
    /\ pc = "idle"
    /\ credential # "missing"
    /\ messages' = session_init(messages)
    /\ pre' = messages'
    /\ rendered' = display_chat_history(messages')
    /\ live' = << >>
    /\ status' = "none"
    /\ thinking_content' = << >>
    /\ response_content' = << >>
    /\ nparts' = 0
    /\ error' = "none"
    /\ UNCHANGED << credential, pc, sent, inputs, calls, completed, failed, stream, pos >>

\* A script run in which st.chat_input returns user_input, up to the point
\* where process_thinking_stream waits for the first fragment: the history is
\* drawn, the user message is appended and drawn, the chat model is called
\* with the store, the status container opens.
Submit(user_input) ==
    /\ pc = "idle"
    /\ credential # "missing"
    /\ messages # << >>
    /\ Len(inputs) < MaxTurns
    /\ pre' = messages
    /\ rendered' = display_chat_history(messages)
    /\ inputs' = Append(inputs, user_input)
    /\ messages' = Append(messages, user_message(user_input))
    /\ live' = << display_message(user_message(user_input)),
                  [role |-> "assistant", body |-> << >>] >>
    /\ sent' = messages'
    /\ calls' = calls + 1
    /\ thinking_content' = << >>
    /\ response_content' = << >>
    /\ status' = Thinking
    /\ nparts' = 0
    /\ error' = "none"
    /\ pc' = "streaming"
    /\ UNCHANGED << credential, completed, failed, stream, pos >>

\* The same run when the call of the chat model itself raises: the exception
\* leaves handle_user_input at line 88 and ends the script run.
SubmitFail(user_input) ==
    /\ pc = "idle"
    /\ credential # "missing"
    /\ messages # << >>
    /\ Len(inputs) < MaxTurns
    /\ pre' = messages
    /\ rendered' = display_chat_history(messages)
    /\ inputs' = Append(inputs, user_input)
    /\ messages' = Append(messages, user_message(user_input))
    /\ live' = << display_message(user_message(user_input)),
                  [role |-> "assistant", body |-> << >>] >>
    /\ sent' = messages'
    /\ calls' = calls + 1
    /\ thinking_content' = << >>
    /\ response_content' = << >>
    /\ status' = "none"
    /\ nparts' = 0
    /\ error' = "ResponseError"
    /\ failed' = failed + 1
    /\ UNCHANGED << credential, pc, completed, stream, pos >>

\* The stream yields a fragment: one iteration of the for loop.
NextPart(part) ==
    /\ pc = "streaming"
    /\ credential = "valid"
    /\ nparts < MaxParts
    /\ LET acc == loop_body([thinking_content |-> thinking_content,
                             response_content |-> response_content], part)
       IN  /\ thinking_content' = acc.thinking_content
           /\ response_content' = acc.response_content
    /\ nparts' = nparts + 1
    /\ UNCHANGED << credential, messages, pc, status, sent, rendered, live, pre,
                    inputs, calls, completed, failed, error, stream, pos >>

\* The stream is exhausted: the status is updated, the pair is returned and
\* drawn, and the assistant message is appended to the store.
StreamEnd ==
    /\ pc = "streaming"
    /\ credential = "valid"
    /\ status' = ThinkingComplete
    /\ live' = << live[1],
                  [role |-> "assistant",
                   body |-> display_assistant_message(response_content, thinking_content)] >>
    /\ messages' = Append(messages, assistant_message(response_content, thinking_content))
    /\ completed' = completed + 1
    /\ pc' = "idle"
    /\ UNCHANGED << credential, thinking_content, response_content, nparts, sent,
                    rendered, pre, inputs, calls, failed, error, stream, pos >>

\* StreamFail committing what was accumulated so far.
StreamFail_commits_partial ==
    /\ pc = "streaming"
    /\ error' = "ResponseError"
    /\ failed' = failed + 1
    /\ pc' = "idle"
    /\ messages' = Append(messages, assistant_message(response_content, thinking_content))
    /\ UNCHANGED << credential, thinking_content, response_content, status,
                    nparts, sent, rendered, live, pre, inputs, calls, completed,
                    stream, pos >>

\* StreamFail taking the turn's user message back out of the store.
StreamFail_rolls_back ==
    /\ pc = "streaming"
    /\ error' = "ResponseError"
    /\ failed' = failed + 1
    /\ pc' = "idle"
    /\ messages' = pre
    /\ UNCHANGED << credential, thinking_content, response_content, status,
                    nparts, sent, rendered, live, pre, inputs, calls, completed,
                    stream, pos >>

\* StreamFail calling the chat model again instead of giving up.
StreamFail_retries ==
    /\ pc = "streaming"
    /\ calls < MaxTurns + 1
    /\ calls' = calls + 1
    /\ sent' = messages
    /\ thinking_content' = << >>
    /\ response_content' = << >>
    /\ nparts' = 0
    /\ UNCHANGED << credential, messages, pc, status, rendered, live, pre, inputs,
                    completed, failed, error, stream, pos >>

\* The stream raises (rejected credential on the first read, or a transport
\* failure at any read): the exception leaves the for loop,
\* process_thinking_stream and handle_user_input, and ends the script run.
StreamFail ==
    /\ pc = "streaming"
    /\ error' = "ResponseError"
    /\ failed' = failed + 1
    /\ pc' = "idle"
    /\ UNCHANGED << credential, messages, thinking_content, response_content, status,
                    nparts, sent, rendered, live, pre, inputs, calls, completed,
                    stream, pos >>

Next ==
    \/ StartupCrash
    \/ Run
    \/ \E user_input \in UserInputs : Submit(user_input)
    \/ \E user_input \in UserInputs : SubmitFail(user_input)
    \/ \E part \in Fragment : NextPart(part)
    \/ StreamEnd
    \/ StreamFail

Spec == Init /\ [][Next]_vars

----------------------------------------------------------------------------
(* process_thinking_stream on every bounded stream: SpecStream *)

InitStream ==
    /\ stream \in SeqsUpTo(Fragment, MaxLen)
    /\ pos = 0
    /\ pc = "streaming"
    /\ thinking_content = << >>
    /\ response_content = << >>
    /\ status = Thinking
    /\ credential = "valid"
    /\ messages = << system_message >>
    /\ nparts = 0
    /\ sent = << >>
    /\ rendered = << >>
    /\ live = << >>
    /\ pre = << >>
    /\ inputs = << >>
    /\ calls = 0
    /\ completed = 0
    /\ failed = 0
    /\ error = "none"

\* for part in stream: one iteration.
Iterate ==
    /\ pc = "streaming"
    /\ pos < Len(stream)
    /\ LET acc == loop_body([thinking_content |-> thinking_content,
                             response_content |-> response_content], stream[pos + 1])
       IN  /\ thinking_content' = acc.thinking_content
           /\ response_content' = acc.response_content
    /\ pos' = pos + 1
    /\ UNCHANGED << credential, messages, pc, status, nparts, sent, rendered, live,
                    pre, inputs, calls, completed, failed, error, stream >>

\* The loop ends: status.update and return.
Return ==
    /\ pc = "streaming"
    /\ pos = Len(stream)
    /\ status' = ThinkingComplete
    /\ pc' = "returned"
    /\ UNCHANGED << credential, messages, thinking_content, response_content, nparts,
                    sent, rendered, live, pre, inputs, calls, completed, failed,
                    error, stream, pos >>

NextStream == Iterate \/ Return

SpecStream == InitStream /\ [][NextStream]_vars

----------------------------------------------------------------------------
(* Properties of the classifier, checked under SpecStream *)

MessageOf(part) == get(part, "message", EmptyDict)

HasThinking(part) == "thinking" \in DOMAIN MessageOf(part)
HasContent(part) == "content" \in DOMAIN MessageOf(part)
HasNoThinking(part) == ~HasThinking(part)
CarriesDelta(part) == HasThinking(part) \/ HasContent(part)

\* The deltas the fragments of parts carry under key, concatenated in order.
RECURSIVE ConcatDeltas(_, _)
ConcatDeltas(parts, key) ==
    IF parts = << >> THEN << >>
    ELSE get(MessageOf(Head(parts)), key, << >>) \o ConcatDeltas(Tail(parts), key)

\* C1 as stated: when process_thinking_stream returns, the reasoning is the
\* concatenation of every thinking delta of the stream and the answer is the
\* concatenation of every content delta of the stream.
C1_EveryDeltaIsKept ==
    pc = "returned" =>
        /\ thinking_content = ConcatDeltas(stream, "thinking")
        /\ response_content = ConcatDeltas(stream, "content")

\* C1 amended: when process_thinking_stream returns, the reasoning is the
\* concatenation of every thinking delta of the stream, and the answer is the
\* concatenation of the content deltas of the fragments that have no
\* thinking key.
C1_DeltasKeptUnlessThinking ==
    pc = "returned" =>
        /\ thinking_content = ConcatDeltas(stream, "thinking")
        /\ response_content = ConcatDeltas(SelectSeq(stream, HasNoThinking), "content")

\* A returned call on an interleaved stream (content, thinking, content) whose
\* two results are both non-empty.
C1_Witness ==
    /\ pc = "returned"
    /\ Len(stream) = 3
    /\ ~HasThinking(stream[1]) /\ HasContent(stream[1])
    /\ HasThinking(stream[2])
    /\ ~HasThinking(stream[3]) /\ HasContent(stream[3])
    /\ Len(thinking_content) = 1
    /\ Len(response_content) = 2

\* C8: when process_thinking_stream returns, its result is the result for the
\* stream with the fragments that carry neither key removed.
C8_KeylessFragmentsIgnored ==
    pc = "returned" =>
        << thinking_content, response_content >>
            = process_thinking_stream(SelectSeq(stream, CarriesDelta))

\* A returned call on a stream that has a fragment without "message" and a
\* fragment whose message has neither key, between fragments that were kept.
C8_Witness ==
    /\ pc = "returned"
    /\ Len(stream) = 3
    /\ "message" \notin DOMAIN stream[2]
    /\ \/ "message" \in DOMAIN stream[1] /\ ~CarriesDelta(stream[1])
       \/ "message" \in DOMAIN stream[3] /\ ~CarriesDelta(stream[3])
    /\ thinking_content \o response_content # << >>

\* C10: an iteration of the loop on a fragment with a thinking key appends the
\* thinking delta to the reasoning and leaves the answer alone, whether or not
\* the fragment has a content key; the content delta is appended, and the
\* reasoning left alone, only when the thinking key is absent; a fragment
\* with neither key changes nothing.
C10_ThinkingTakesPrecedence ==
    [][ pos' = pos + 1 =>
          LET part == stream[pos + 1]
          IN  /\ HasThinking(part) =>
                    /\ thinking_content' = thinking_content \o MessageOf(part)["thinking"]
                    /\ response_content' = response_content
              /\ (~HasThinking(part) /\ HasContent(part)) =>
                    /\ response_content' = response_content \o MessageOf(part)["content"]
                    /\ thinking_content' = thinking_content
              /\ ~CarriesDelta(part) =>
                    /\ thinking_content' = thinking_content
                    /\ response_content' = response_content ]_vars

\* The loop has just consumed a fragment with both keys and a non-empty
\* content delta, and the answer is still empty.
C10_Witness ==
    /\ pos >= 1
    /\ HasThinking(stream[pos]) /\ HasContent(stream[pos])
    /\ MessageOf(stream[pos])["content"] # << >>
    /\ thinking_content # << >>
    /\ response_content = << >>

----------------------------------------------------------------------------
(* Properties of a session, checked under Spec *)

\* The last script run was a turn that an exception ended.
TurnFailed == pc = "idle" /\ error = "ResponseError"

\* C2 as stated: after a turn whose stream raised after yielding at least one
\* fragment, the store is as long as it was before the turn was submitted.
C2_FailedTurnLeavesLength ==
    (TurnFailed /\ nparts > 0) => Len(messages) = Len(pre)

\* C2 amended: after a turn whose stream raised after yielding at least one
\* fragment, the store is exactly one message longer than before the turn was
\* submitted: the old store followed by the turn's user message.
C2_FailedTurnKeepsUserMessage ==
    (TurnFailed /\ nparts > 0) =>
        /\ Len(messages) = Len(pre) + 1
        /\ messages = Append(pre, user_message(Last(inputs)))

\* A turn failed after its stream had yielded content.
C2_Witness ==
    /\ TurnFailed
    /\ nparts > 0
    /\ response_content # << >>

\* C3: in a session whose turns all completed, N of them, the store is the
\* system message followed by N pairs of a user message and an assistant
\* message, the user messages being the submitted inputs in order.
C3_CompletedTurnsAlternate ==
    (pc = "idle" /\ messages # << >> /\ failed = 0) =>
        /\ Len(messages) = 1 + 2 * completed
        /\ messages[1] = system_message
        /\ Len(inputs) = completed
        /\ \A i \in 1..completed :
              /\ messages[2 * i] = user_message(inputs[i])
              /\ messages[2 * i + 1].role = "assistant"

\* Two turns completed, none failed.
C3_Witness ==
    /\ pc = "idle"
    /\ failed = 0
    /\ completed = 2
    /\ inputs[1] # inputs[2]

\* C4: after a failed turn the store is the store before the turn, followed
\* by nothing or by the turn's user message alone; no assistant message was
\* added, so none of the accumulated text is in the store.
C4_FailedTurnAddsNoAssistant ==
    TurnFailed =>
        /\ IsPrefix(pre, messages)
        /\ SubSeq(messages, Len(pre) + 1, Len(messages))
              \in { << >>, << user_message(Last(inputs)) >> }
        /\ \A i \in (Len(pre) + 1)..Len(messages) : messages[i].role # "assistant"

\* A turn failed with both reasoning and answer text accumulated.
C4_Witness ==
    /\ TurnFailed
    /\ thinking_content # << >>
    /\ response_content # << >>
    /\ completed = 1

\* C5: every step leaves the store it found as a prefix of the store it
\* leaves.
C5_StoreAppendOnly == [][IsPrefix(messages, messages')]_vars

\* A store of five messages was drawn again by a later run.
C5_Witness ==
    /\ Len(messages) = 5
    /\ live = << >>
    /\ Len(rendered) = 4

\* C6: every stored message with a thinking entry is an assistant message.
C6_ThinkingOnlyOnAssistant ==
    \A i \in 1..Len(messages) :
        "thinking" \in DOMAIN messages[i] => messages[i].role = "assistant"

\* An assistant message with reasoning text is followed by a user message.
C6_Witness ==
    /\ Len(messages) >= 4
    /\ messages[3].role = "assistant"
    /\ messages[3].thinking # << >>
    /\ messages[4].role = "user"

\* C7: the history a turn passes to the chat model is the whole store, the
\* system message first and the turn's user message last; the history drawn
\* by a run is every message of the store but the first, the system message,
\* in store order.
C7_SentAllRenderedAllButSystem ==
    /\ live # << >> =>
          /\ sent = Append(pre, user_message(Last(inputs)))
          /\ Head(sent).role = "system"
          /\ pc = "streaming" => sent = messages
    /\ pre # << >> =>
          /\ Len(rendered) = Len(pre) - 1
          /\ \A i \in 1..Len(rendered) :
                /\ rendered[i].role = pre[i + 1].role
                /\ rendered[i] = display_message(pre[i + 1])
                /\ pre[i + 1].content # << >> =>
                      \E j \in 1..Len(rendered[i].body) :
                          rendered[i].body[j] = Markdown(pre[i + 1].content)

\* A second turn is streaming: the history of the first was drawn and sent.
C7_Witness ==
    /\ pc = "streaming"
    /\ calls = 2
    /\ Len(sent) = 4
    /\ Len(rendered) = 2
    /\ rendered[2].body # << >>

\* C9: a step calls the chat model exactly when it takes a new input, and
\* then once; no step of a turn in progress calls it, so a failure is not
\* retried and no second turn starts; fragments are read only while a turn is
\* in progress; an assistant message is appended only by the step that ends
\* the turn on the exhausted stream.
C9_OneCallPerTurn ==
    [][ /\ calls' - calls = Len(inputs') - Len(inputs)
        /\ calls' - calls \in { 0, 1 }
        /\ pc = "streaming" => calls' = calls
        /\ failed' # failed => (pc' = "idle" /\ calls' <= calls + 1 /\ failed' = failed + 1)
        /\ nparts' > nparts => (pc = "streaming" /\ pc' = "streaming")
        /\ (Len(messages') > Len(messages) /\ Last(messages').role = "assistant") =>
              /\ pc = "streaming"
              /\ pc' = "idle"
              /\ status' = ThinkingComplete
              /\ completed' = completed + 1 ]_vars

\* A session with one failed and one completed turn.
C9_Witness ==
    /\ failed = 1
    /\ completed = 1
    /\ calls = 2
    /\ pc = "idle"

====
